---------------------------- MODULE Spec2Model ----------------------------
(***************************************************************************)
(* Identity & verification pipeline of the agent registry:                 *)
(*   - canonical-string request signing / verification (crypto/request.ts) *)
(*   - DID resolution and multibase key encoding (did/resolve.ts, utils.ts) *)
(*   - registry verification with the signature (replay) cache             *)
(*   - the credit ledger and its atomic database function                  *)
(*                                                                         *)
(* Strings and byte arrays are sequences of tokens.  A token is a TLA+     *)
(* string standing for one character or for one indivisible chunk of       *)
(* characters; the empty string is << >>.  An optional value (undefined    *)
(* in the source) is the empty sequence None, a present value v is          *)
(* Some(v) = <<v>>.                                                         *)
(***************************************************************************)
EXTENDS Integers, Sequences, FiniteSets, TLC

VARIABLES
    now,              \* the clock read by Date.now() and by NOW()
    pure,             \* one run of a library package (crypto or did)
    guardians,        \* table guardians: set of github ids
    agents,           \* table agents: DID -> row (committed rows)
    credit_ledger,    \* table credit_ledger: rows in append order
    signature_cache,  \* table signature_cache: set of rows, keyed by hash
    calls,            \* the registry calls in flight
    returned,         \* the call that returned last, with its outcome
    accepted,         \* history: the signatures accepted so far
    applied,          \* history: DID -> number of credit updates made visible
    opCount           \* number of registry calls started so far

vars == <<now, pure, guardians, agents, credit_ledger, signature_cache,
          calls, returned, accepted, applied, opCount>>

registryVars == <<guardians, agents, credit_ledger, signature_cache,
                  calls, returned, accepted, applied, opCount>>

-----------------------------------------------------------------------------
(* Bounds of the model *)

MaxCalls == 2
MaxOps == 3
MaxOpsAll == 2
MaxRegistering == 1

-----------------------------------------------------------------------------
(* Optional values *)

None == << >>
Some(v) == <<v>>
IsSome(o) == o # << >>
Get(o) == o[1]

\* JavaScript's a ?? b
Coalesce(o, d) == IF IsSome(o) THEN Get(o) ELSE d

\* JavaScript's !s for an optional string: undefined or the empty string
IsFalsyString(o) == o = None \/ Get(o) = << >>

Abs(x) == IF x < 0 THEN -x ELSE x

-----------------------------------------------------------------------------
(* Number <-> decimal string *)

DigitTokens == <<"0", "1", "2", "3", "4", "5", "6", "7", "8", "9">>

IsDigit(c) == \E i \in 1..10 : DigitTokens[i] = c

DigitVal(c) == (CHOOSE i \in 1..10 : DigitTokens[i] = c) - 1

IsWhitespace(c) == c \in {" ", "\t", "\n"}

RECURSIVE NatToString(_)
NatToString(n) ==
    IF n < 10 THEN <<DigitTokens[n + 1]>>
    ELSE NatToString(n \div 10) \o <<DigitTokens[(n % 10) + 1]>>

\* Number.prototype.toString / template-literal conversion of an integer
NumberToString(n) == IF n < 0 THEN <<"-">> \o NatToString(-n) ELSE NatToString(n)

RECURSIVE SkipWhitespace(_)
SkipWhitespace(s) ==
    IF s # << >> /\ IsWhitespace(Head(s)) THEN SkipWhitespace(Tail(s)) ELSE s

RECURSIVE DigitPrefix(_)
DigitPrefix(s) ==
    IF s # << >> /\ IsDigit(Head(s)) THEN <<Head(s)>> \o DigitPrefix(Tail(s)) ELSE << >>

RECURSIVE DigitsValue(_, _)
DigitsValue(s, acc) ==
    IF s = << >> THEN acc ELSE DigitsValue(Tail(s), acc * 10 + DigitVal(Head(s)))

NaN == [nan |-> TRUE, val |-> 0]

\* Number.parseInt(s, 10): leading whitespace is skipped, one optional sign is
\* read, then the longest run of decimal digits; anything after it is ignored.
\* No digit at that point gives NaN.
ParseInt(s) ==
    LET t == SkipWhitespace(s)
        neg == t # << >> /\ Head(t) = "-"
        signed == t # << >> /\ Head(t) \in {"-", "+"}
        u == IF signed THEN Tail(t) ELSE t
        ds == DigitPrefix(u)
    IN  IF ds = << >> THEN NaN
        ELSE [nan |-> FALSE, val |-> IF neg THEN -DigitsValue(ds, 0) ELSE DigitsValue(ds, 0)]

-----------------------------------------------------------------------------
(* Encodings and primitives *)

\* String.prototype.toUpperCase on the method tokens in use
ToUpperCase(s) ==
    [i \in 1..Len(s) |->
        CASE s[i] = "post" -> "POST"
          [] s[i] = "get" -> "GET"
          [] s[i] = "Post" -> "POST"
          [] OTHER -> s[i]]

\* String.prototype.toLowerCase on the header names in use
ToLowerCase(name) ==
    CASE name \in {"X-Agent-Signature", "x-agent-signature", "X-AGENT-SIGNATURE"} -> "x-agent-signature"
      [] name \in {"X-Agent-Timestamp", "x-agent-timestamp"} -> "x-agent-timestamp"
      [] name \in {"X-Agent-DID", "x-agent-did"} -> "x-agent-did"
      [] name \in {"X-Agent-Method", "x-agent-method"} -> "x-agent-method"
      [] name \in {"X-Agent-URL", "x-agent-url"} -> "x-agent-url"
      [] OTHER -> name

\* SHA-256 of a string, as an injective digest
sha256(bytes) == <<"sha256">> \o bytes

\* base64url text of a byte array, without padding
base64urlEncode(data) == <<"b64u">> \o data

\* Buffer.from(text, 'base64') after the padding is completed: it never
\* throws, '=' characters carry no data, and text that is no encoding of
\* anything gives bytes that are no signature and no key
base64urlDecode(encoded) ==
    LET text == SelectSeq(encoded, LAMBDA ch : ch # "=")
    IN  IF text # << >> /\ Head(text) = "b64u" THEN Tail(text)
        ELSE <<"junk">> \o text

PrivateKeys == {<<"skA">>, <<"skB">>}

\* ed25519.getPublicKeyAsync
getPublicKey(privateKey) == IF privateKey = <<"skA">> THEN <<"pkA">> ELSE <<"pkB">>

\* Ed25519 signature of a message: deterministic in (message, key)
signMessage(message, privateKey) == <<"ed25519">> \o privateKey \o message

\* ed25519.verifyAsync: it throws for a key that is not 32 bytes (one key
\* token) or a signature that is not 64 bytes, and otherwise tells whether
\* the signature is the one of this message under the private half of the key
ed25519_verifyAsync(signature, message, publicKey) ==
    IF Len(publicKey) # 1 \/ signature = << >> \/ Head(signature) # "ed25519"
    THEN "throws"
    ELSE IF \E sk \in PrivateKeys : /\ getPublicKey(sk) = publicKey
                                    /\ signature = signMessage(message, sk)
    THEN "true"
    ELSE "false"

\* try { return await ed25519.verifyAsync(...) } catch { return false }
verifySignature(message, signature, publicKey) ==
    ed25519_verifyAsync(signature, message, publicKey) = "true"

-----------------------------------------------------------------------------
(* crypto/request.ts *)

DEFAULT_TOLERANCE_MS == 5 * 60 * 1000

\* A SignableRequest is [method, url, body (optional), timestamp (optional)]
createCanonicalString(request, clock) ==
    LET method == ToUpperCase(request.method)
        timestamp == Coalesce(request.timestamp, clock)
        bodyHash == IF IsSome(request.body)
                    THEN base64urlEncode(sha256(Get(request.body)))
                    ELSE << >>
    IN  method \o <<"\n">> \o request.url \o <<"\n">>
          \o NumberToString(timestamp) \o <<"\n">> \o bodyHash

\* Headers are a list of <<name, value>> entries in insertion order
signRequest(request, options, clock) ==
    LET timestamp == Coalesce(request.timestamp, clock)
        canonical == createCanonicalString(
                        [request EXCEPT !.timestamp = Some(timestamp)], clock)
        signature == signMessage(canonical, options.privateKey)
    IN  << <<"X-Agent-Signature", base64urlEncode(signature)>>,
           <<"X-Agent-DID", options.did>>,
           <<"X-Agent-Timestamp", NumberToString(timestamp)>> >>

RECURSIVE getHeader(_, _)
getHeader(headers, name) ==
    IF headers = << >> THEN None
    ELSE IF ToLowerCase(Head(headers)[1]) = ToLowerCase(name)
         THEN Some(Head(headers)[2])
         ELSE getHeader(Tail(headers), name)

TimestampDiff_OneSided(clock, timestampNum) == clock - timestampNum

\* const diff = Math.abs(now - timestampNum)
TimestampDiff(clock, timestampNum) == Abs(clock - timestampNum)

Result_NoReason(valid, error, expired) ==
    [valid |-> valid, error |-> "", expiredTimestamp |-> expired]

Result(valid, error, expired) ==
    [valid |-> valid, error |-> error, expiredTimestamp |-> expired]

Sidecar_NoDefault(headers, name, default) ==
    Coalesce(getHeader(headers, name), << >>)

\* getHeader(headers, name) ?? default
Sidecar(headers, name, default) ==
    Coalesce(getHeader(headers, name), default)

verifyRequest(headers, publicKey, body, toleranceOpt, clock) ==
    LET toleranceMs == Coalesce(toleranceOpt, DEFAULT_TOLERANCE_MS)
        signature == getHeader(headers, "X-Agent-Signature")
        timestamp == getHeader(headers, "X-Agent-Timestamp")
    IN  IF IsFalsyString(signature)
        THEN Result(FALSE, "Missing X-Agent-Signature header", FALSE)
        ELSE IF IsFalsyString(timestamp)
        THEN Result(FALSE, "Missing X-Agent-Timestamp header", FALSE)
        ELSE LET timestampNum == ParseInt(Get(timestamp))
             IN  IF timestampNum.nan
                 THEN Result(FALSE, "Invalid timestamp format", FALSE)
                 ELSE IF TimestampDiff(clock, timestampNum.val) > toleranceMs
                 THEN Result(FALSE, "Timestamp outside tolerance window", TRUE)
                 ELSE LET method == Sidecar(headers, "X-Agent-Method", <<"POST">>)
                          url == Sidecar(headers, "X-Agent-URL", <<"/">>)
                          request == [method |-> method, url |-> url, body |-> body,
                                      timestamp |-> Some(timestampNum.val)]
                          canonical == createCanonicalString(request, clock)
                          signatureBytes == base64urlDecode(Get(signature))
                      IN  IF ~verifySignature(canonical, signatureBytes, publicKey)
                          THEN Result(FALSE, "Invalid signature", FALSE)
                          ELSE Result(TRUE, "", FALSE)

-----------------------------------------------------------------------------
(* One run of the crypto package: a request is signed by signRequest, time  *)
(* passes, and the headers are handed to verifyRequest.                     *)

SignTime == 10000 * 1000

ClockOffsets == {-600000, -300001, -300000, 0, 300000, 300001, 600000}

Tolerances == {None, Some(10 * 60 * 1000), Some(0)}

Methods == {<<"POST">>, <<"get">>}

Urls == {<<"/">>, <<"/api/test">>}

Bodies == {None, Some(<<"{name:original}">>), Some(<<"{name:tampered}">>)}

PureIdle == [stage |-> "idle"]

PureInputs ==
    [stage : {"input"},
     request : [method : Methods, url : Urls,
                body : {None, Some(<<"{name:original}">>)},
                timestamp : {None, Some(SignTime - 7 * 60 * 1000)}],
     privateKey : {<<"skA">>},
     verifyAt : {SignTime + d : d \in ClockOffsets},
     sidecars : BOOLEAN,
     signatureAs : {"same"}, timestampAs : {"same"},
     methodAs : {"same"}, urlAs : {"same"},
     publicKey : {<<"pkA">>, <<"pkB">>},
     body : Bodies,
     toleranceMs : Tolerances,
     headers : {<< >>},
     result : {Result(FALSE, "", FALSE)}]

\* what can be done to a header between signing and verifying: to the
\* signature text (padding added, a byte changed, text that is no base64url,
\* emptied, removed), to the timestamp text (characters after or before the
\* digits, a fraction, no digits, another instant, emptied, removed), to the
\* method sidecar (letter case, another method) and to the URL sidecar
SignatureEdits == {"same", "padded", "flipped", "garbage", "empty", "absent"}

TimestampEdits == {"same", "suffixed", "spaced", "fraction", "letters", "other",
                   "empty", "absent"}

MethodEdits == {"same", "case", "other"}

UrlEdits == {"same", "other"}

\* public keys handed to verifyRequest: the signer's, another one, and byte
\* arrays of 0 and of 33 bytes
PublicKeyInputs == {<<"pkA">>, <<"pkB">>, << >>, <<"pkA", "00">>}

TamperInputs ==
    [stage : {"input"},
     request : [method : Methods, url : Urls,
                body : {Some(<<"{name:original}">>)},
                timestamp : {None}],
     privateKey : {<<"skA">>},
     verifyAt : {SignTime + DEFAULT_TOLERANCE_MS},
     sidecars : BOOLEAN,
     signatureAs : SignatureEdits, timestampAs : TimestampEdits,
     methodAs : MethodEdits, urlAs : UrlEdits,
     publicKey : PublicKeyInputs,
     body : Bodies,
     toleranceMs : {None, Some(0)},
     headers : {<< >>},
     result : {Result(FALSE, "", FALSE)}]

EditSignature(as, text) ==
    CASE as = "padded" -> text \o <<"=">>
      [] as = "flipped" -> base64urlEncode(Append(base64urlDecode(text), "01"))
      [] as = "garbage" -> <<"!", "!">>
      [] as = "empty" -> << >>
      [] OTHER -> text

EditTimestamp(as, text) ==
    CASE as = "suffixed" -> text \o <<"a", "b", "c">>
      [] as = "spaced" -> <<" ">> \o text
      [] as = "fraction" -> text \o <<".", "5">>
      [] as = "letters" -> <<"a", "b", "c">>
      [] as = "other" -> NumberToString(ParseInt(text).val + 1)
      [] as = "empty" -> << >>
      [] OTHER -> text

EditMethod(as, method) ==
    CASE as = "case" -> (IF method = ToUpperCase(method) THEN <<"post">> ELSE ToUpperCase(method))
      [] as = "other" -> <<"PUT">>
      [] OTHER -> method

EditUrl(as, url) == IF as = "other" THEN <<"/other">> ELSE url

\* the headers object handed to verifyRequest
PresentedHeaders(p) ==
    LET signature == Get(getHeader(p.headers, "X-Agent-Signature"))
        timestamp == Get(getHeader(p.headers, "X-Agent-Timestamp"))
    IN  (IF p.signatureAs = "absent" THEN << >>
         ELSE << <<"X-Agent-Signature", EditSignature(p.signatureAs, signature)>> >>)
        \o << <<"X-Agent-DID", Get(getHeader(p.headers, "X-Agent-DID"))>> >>
        \o (IF p.timestampAs = "absent" THEN << >>
            ELSE << <<"X-Agent-Timestamp", EditTimestamp(p.timestampAs, timestamp)>> >>)
        \o (IF p.sidecars
            THEN << <<"X-Agent-Method", EditMethod(p.methodAs, p.request.method)>>,
                    <<"X-Agent-URL", EditUrl(p.urlAs, p.request.url)>> >>
            ELSE << >>)

\* signRequest(request, {privateKey, did}) at the signer's clock
PSign ==
    /\ pure.stage = "input"
    /\ pure' = [pure EXCEPT
                  !.stage = "signed",
                  !.headers = signRequest(pure.request,
                                 [privateKey |-> pure.privateKey, did |-> <<"did:agent:test">>],
                                 now)]
    /\ UNCHANGED <<now, registryVars>>

\* the verifier reads its own clock
PClock ==
    /\ pure.stage = "signed"
    /\ now' = pure.verifyAt
    /\ pure' = [pure EXCEPT !.stage = "clocked"]
    /\ UNCHANGED registryVars

\* verifyRequest(headers, publicKey, body, toleranceMs); the caller adds the
\* X-Agent-Method / X-Agent-URL sidecar headers or leaves them out
PVerify ==
    /\ pure.stage = "clocked"
    /\ pure' = [pure EXCEPT
                  !.stage = "verified",
                  !.result = verifyRequest(PresentedHeaders(pure), pure.publicKey,
                                           pure.body, pure.toleranceMs, now)]
    /\ UNCHANGED <<now, registryVars>>

-----------------------------------------------------------------------------
(* The registry database (supabase/migrations) and its client               *)

DIDs == {"did:web:a.example", "did:web:b.example"}

\* agents.credits INTEGER DEFAULT 100
DefaultCredits == 100

\* agents.trust_score DECIMAL(5,2) DEFAULT 50.00
DefaultTrustScore == 50

\* INTERVAL '1 hour' of cleanup_signature_cache, in milliseconds
CacheHorizonMs == 60 * 60 * 1000

\* the instants at which something happens: the signing time, the last
\* instant inside the default tolerance, and one past the cache horizon
ClockPoints == {SignTime, SignTime + DEFAULT_TOLERANCE_MS, SignTime + CacheHorizonMs + 1}

\* bytesToHex
bytesToHex(bytes) == <<"hex">> \o bytes

\* registrations: one agent stores its public key as hex digits, the other
\* as the base64url text the key files hold (exportPublicKey)
Registrations ==
    { [did |-> "did:web:a.example", publicKey |-> bytesToHex(<<"pkA">>),
       name |-> "agent", description |-> None, capabilities |-> None, metadata |-> None,
       didDocument |-> [id |-> "did:web:a.example"], guardianGithubId |-> "octocat"],
      [did |-> "did:web:b.example", publicKey |-> base64urlEncode(<<"pkA">>),
       name |-> "b.example", description |-> None, capabilities |-> None,
       metadata |-> None,
       didDocument |-> [id |-> "did:web:b.example"], guardianGithubId |-> "octocat"] }

CreditEvents ==
    { [type |-> "pr_merged", amount |-> 1, reason |-> "PR merged",
       prUrl |-> Some(<<"https://github.com/o/r/pull/1">>)],
      [type |-> "security_issue", amount |-> -150, reason |-> "Leak", prUrl |-> None] }

NoEvent == [type |-> "", amount |-> 0, reason |-> "", prUrl |-> None]

AgentUpdates ==
    { [name |-> Some("renamed"), description |-> None, capabilities |-> None,
       metadata |-> None],
      [name |-> None, description |-> Some("reviews pull requests"),
       capabilities |-> Some(<<"review">>), metadata |-> Some("{tier: 1}")] }

\* the DID that updateAgent, suspendAgent, revokeAgent, getCredits and
\* getCreditHistory are called with
ManagedDIDs == {"did:web:a.example"}

Reasons == {"policy"}

HistoryLimits == {1, 50}

\* what verifyAgentSignature is handed: signatures made by signRequest over
\* (POST, "/", timestamp, message), by the key holder and by somebody else
Messages == {<<"contribution">>}

SignedAt == {SignTime}

SignatureOf(sk, message, ts) ==
    signRequest([method |-> <<"POST">>, url |-> <<"/">>, body |-> Some(message),
                 timestamp |-> Some(ts)],
                [privateKey |-> sk, did |-> <<"did">>], ts)[1][2]

Presentations ==
    { [signature |-> SignatureOf(sk, m, ts), message |-> m, timestamp |-> NumberToString(ts)] :
        sk \in PrivateKeys, m \in Messages, ts \in SignedAt }

NoResult == [ok |-> FALSE, valid |-> FALSE, error |-> << >>, value |-> None]

IdleCall ==
    [op |-> "idle", pc |-> "idle", did |-> "", callNo |-> 0,
     signature |-> << >>, message |-> << >>, timestamp |-> << >>,
     event |-> NoEvent, limit |-> 0,
     txnStart |-> 0, agent |-> None, signatureHash |-> << >>,
     newBalance |-> 0, row |-> None, executed |-> [update |-> FALSE, insert |-> FALSE],
     result |-> NoResult,
     afterAccept |-> FALSE, faulted |-> FALSE, second |-> FALSE, overlapped |-> FALSE,
     afterSweep |-> FALSE]

InitRegistry ==
    /\ guardians = {}
    /\ agents = [d \in {} |-> 0]
    /\ credit_ledger = << >>
    /\ signature_cache = {}
    /\ calls = {}
    /\ returned = IdleCall
    /\ accepted = {}
    /\ applied = [d \in DIDs |-> 0]
    /\ opCount = 0

Init ==
    /\ now = SignTime
    /\ pure = PureIdle
    /\ InitRegistry

InitCrypto ==
    /\ now = SignTime
    /\ pure \in PureInputs
    /\ InitRegistry

InitTamper ==
    /\ now = SignTime
    /\ pure \in TamperInputs
    /\ InitRegistry

\* throw new Error(...) / a returned value, as the outcome a caller sees
Thrown(error) == [ok |-> FALSE, valid |-> FALSE, error |-> error, value |-> None]
Returned(value) == [ok |-> TRUE, valid |-> FALSE, error |-> << >>, value |-> Some(value)]

CanCall == pure.stage = "idle" /\ opCount < MaxOps

CanStart == CanCall /\ Cardinality(calls) < MaxCalls

\* a call that makes one database request and returns
Finish(op, did, result) ==
    /\ returned' = [IdleCall EXCEPT !.op = op, !.pc = "done", !.did = did,
                                    !.callNo = opCount + 1, !.result = result]
    /\ opCount' = opCount + 1

\* a call in flight moves on / returns
Step(c, d) == calls' = (calls \ {c}) \cup {d}
Done(c, d) == calls' = calls \ {c} /\ returned' = [d EXCEPT !.pc = "done"]

RowLocked_Never(did) == FALSE

RowLocked_Table(did) ==
    \E q \in calls : /\ q.op = "recordCreditEvent"
                     /\ q.executed.update

\* the row lock an open record_credit_event_atomic transaction holds on the
\* agents row it has updated
RowLocked(did) ==
    \E q \in calls : /\ q.op = "recordCreditEvent"
                     /\ q.did = did
                     /\ q.executed.update

\* time passes
Tick ==
    /\ pure.stage = "idle"
    /\ \E t \in ClockPoints : t > now /\ now' = t
    /\ UNCHANGED <<pure, registryVars>>

-----------------------------------------------------------------------------
(* registry/agents.ts, registry/guardians.ts *)

rowToAgent(row) ==
    [id |-> row.id, did |-> row.did, publicKey |-> row.public_key, name |-> row.name,
     description |-> row.description, guardianId |-> row.guardian_id,
     status |-> row.status, credits |-> row.credits, trustScore |-> row.trust_score,
     capabilities |-> row.capabilities, metadata |-> row.metadata,
     didDocument |-> row.did_document,
     revokedAt |-> row.revoked_at, revocationReason |-> row.revocation_reason]

\* CONSTRAINT credits_non_negative CHECK (credits >= 0)
credits_non_negative(credits) == credits >= 0

registerGuardian ==
    /\ pure.stage = "idle"
    /\ \E githubId \in {"octocat"} :
          IF \E g \in guardians : g.github_id = githubId
          THEN /\ returned' = [IdleCall EXCEPT !.op = "registerGuardian", !.pc = "done",
                                 !.result = Thrown(<<"Failed to register guardian: ",
                                                      "duplicate key">>)]
               /\ UNCHANGED guardians
          ELSE LET row == [id |-> <<"guardians", Cardinality(guardians) + 1>>,
                           github_id |-> githubId]
               IN  /\ guardians' = guardians \cup {row}
                   /\ returned' = [IdleCall EXCEPT !.op = "registerGuardian", !.pc = "done",
                                                   !.result = Returned(row)]
    /\ UNCHANGED <<now, pure, agents, credit_ledger, signature_cache, calls,
                   accepted, applied, opCount>>

\* the row INSERT INTO agents builds from the supplied columns and the
\* column defaults: an undefined value is left out of the request, and the
\* column takes its default
NewAgentRow(columns) ==
    [id |-> <<"agents", Cardinality(DOMAIN agents) + 1>>,
     did |-> columns.did, public_key |-> columns.public_key, name |-> columns.name,
     description |-> columns.description,
     guardian_id |-> columns.guardian_id, status |-> "active", credits |-> DefaultCredits,
     trust_score |-> DefaultTrustScore, capabilities |-> columns.capabilities,
     metadata |-> Coalesce(columns.metadata, "{}"),
     did_document |-> columns.did_document,
     revoked_at |-> None, revocation_reason |-> None]

\* the registerAgent calls between their two requests
Registering == {q \in calls : q.op = "registerAgent"}

\* registerAgent up to its first request: the guardian's id; the insert is a
\* second request, and other calls run between the two.  A registration is
\* started while fewer than MaxRegistering calls are in flight.
registerAgent ==
    /\ pure.stage = "idle"
    /\ \E agent \in Registrations :
          IF ~\E g \in guardians : g.github_id = agent.guardianGithubId
          THEN /\ returned' = [IdleCall EXCEPT
                                 !.op = "registerAgent", !.pc = "done", !.did = agent.did,
                                 !.result = Thrown(<<"Guardian not found: ",
                                                     agent.guardianGithubId,
                                                     ". Please register as a guardian first.">>)]
               /\ UNCHANGED calls
          ELSE /\ Cardinality(calls) < MaxRegistering
               /\ LET guardian == CHOOSE g \in guardians :
                                      g.github_id = agent.guardianGithubId
                      slot == CHOOSE k \in 1..MaxRegistering :
                                 /\ \A q \in Registering : q.callNo # 0 - k
                                 /\ \A j \in 1..(k - 1) :
                                       \E q \in Registering : q.callNo = 0 - j
                  IN  calls' = calls \cup
                         {[IdleCall EXCEPT
                             !.op = "registerAgent", !.pc = "insert", !.did = agent.did,
                             !.callNo = 0 - slot,
                             !.row = Some([did |-> agent.did,
                                           public_key |-> agent.publicKey,
                                           name |-> agent.name,
                                           description |-> agent.description,
                                           guardian_id |-> guardian.id,
                                           capabilities |-> agent.capabilities,
                                           metadata |-> agent.metadata,
                                           did_document |-> agent.didDocument])]}
               /\ UNCHANGED returned
    /\ UNCHANGED <<now, pure, guardians, agents, credit_ledger, signature_cache,
                   accepted, applied, opCount>>

\* the second request of registerAgent: INSERT INTO agents, refused when the
\* did is taken (did is UNIQUE)
registerInsert(c) ==
    /\ c.op = "registerAgent" /\ c.pc = "insert"
    /\ IF c.did \in DOMAIN agents
       THEN /\ Done(c, [c EXCEPT !.result =
                           Thrown(<<"Failed to register agent: ", "duplicate key">>)])
            /\ UNCHANGED agents
       ELSE LET row == NewAgentRow(Get(c.row))
            IN  /\ agents' = [d \in DOMAIN agents \cup {c.did} |->
                                 IF d = c.did THEN row ELSE agents[d]]
                /\ Done(c, [c EXCEPT !.result = Returned(rowToAgent(row))])
    /\ UNCHANGED <<now, pure, guardians, credit_ledger, signature_cache,
                   accepted, applied, opCount>>

\* supabase.from('agents').update(columns).eq('did', did).select().single():
\* the statement waits for the row lock; updated is the row with the columns
\* set, looked at only when the row exists
UpdateAgentsRow(op, failure, did, updated) ==
    /\ CanCall
    /\ IF did \notin DOMAIN agents
       THEN /\ Finish(op, did, Thrown(<<failure, "PGRST116">>))
            /\ UNCHANGED agents
       ELSE /\ ~RowLocked(did)
            /\ agents' = [agents EXCEPT ![did] = updated]
            /\ Finish(op, did, Returned(rowToAgent(updated)))
    /\ UNCHANGED <<now, pure, guardians, credit_ledger, signature_cache, calls,
                   accepted, applied>>

UpdateData_Nulls(row, updates) ==
    [row EXCEPT !.name = Coalesce(updates.name, @),
                !.description = updates.description,
                !.capabilities = updates.capabilities,
                !.metadata = Coalesce(updates.metadata, @)]

\* updateData: the columns whose value in updates is not undefined, laid over
\* the row by UPDATE agents SET ...
UpdateData(row, updates) ==
    [row EXCEPT !.name = Coalesce(updates.name, @),
                !.description = IF IsSome(updates.description)
                                THEN updates.description ELSE @,
                !.capabilities = IF IsSome(updates.capabilities)
                                 THEN updates.capabilities ELSE @,
                !.metadata = Coalesce(updates.metadata, @)]

updateAgent ==
    \E did \in ManagedDIDs, updates \in AgentUpdates :
        UpdateAgentsRow("updateAgent", "Failed to update agent: ", did,
                        UpdateData(agents[did], updates))

suspendAgent ==
    \E did \in ManagedDIDs, reason \in Reasons :
        LET columns(row) == [row EXCEPT !.status = "suspended",
                                        !.revocation_reason = Some(reason)]
        IN  UpdateAgentsRow("suspendAgent", "Failed to suspend agent: ", did, columns(agents[did]))

\* revokeAgent up to its request: the clock is read when the call is made,
\* the UPDATE runs when the request reaches the database
revokeAgent ==
    /\ CanStart
    /\ \E did \in ManagedDIDs, reason \in Reasons :
          calls' = calls \cup
                     {[IdleCall EXCEPT
                         !.op = "revokeAgent", !.pc = "update", !.did = did,
                         !.callNo = opCount + 1,
                         !.row = Some([status |-> "revoked", revoked_at |-> Some(now),
                                       revocation_reason |-> Some(reason)])]}
    /\ opCount' = opCount + 1
    /\ UNCHANGED <<now, pure, guardians, agents, credit_ledger, signature_cache,
                   returned, accepted, applied>>

\* the UPDATE of revokeAgent, which waits for the row lock
revokeUpdate(c) ==
    /\ c.op = "revokeAgent" /\ c.pc = "update"
    /\ IF c.did \notin DOMAIN agents
       THEN /\ Done(c, [c EXCEPT !.result =
                           Thrown(<<"Failed to revoke agent: ", "PGRST116">>)])
            /\ UNCHANGED agents
       ELSE /\ ~RowLocked(c.did)
            /\ LET updated == [agents[c.did] EXCEPT
                                 !.status = Get(c.row).status,
                                 !.revoked_at = Get(c.row).revoked_at,
                                 !.revocation_reason = Get(c.row).revocation_reason]
               IN  /\ agents' = [agents EXCEPT ![c.did] = updated]
                   /\ Done(c, [c EXCEPT !.result = Returned(rowToAgent(updated))])
    /\ UNCHANGED <<now, pure, guardians, credit_ledger, signature_cache,
                   accepted, applied, opCount>>

-----------------------------------------------------------------------------
(* registry/credits.ts and record_credit_event_atomic *)

\* a property read on a row object: undefined when the row has no such column
Prop(row, column) == IF column \in DOMAIN row THEN Some(row[column]) ELSE None

rowToLedgerEntry(row) ==
    [id |-> Prop(row, "id"), agentId |-> Prop(row, "agent_id"), type |-> Prop(row, "type"),
     amount |-> Prop(row, "amount"), balanceAfter |-> Prop(row, "balance_after"),
     reason |-> Prop(row, "reason"), prUrl |-> Prop(row, "pr_url"),
     createdAt |-> Prop(row, "created_at")]

getCredits ==
    /\ CanCall
    /\ \E did \in ManagedDIDs :
          IF did \notin DOMAIN agents
          THEN Finish("getCredits", did, Thrown(<<"Agent not found: ", did>>))
          ELSE Finish("getCredits", did, Returned(agents[did].credits))
    /\ UNCHANGED <<now, pure, guardians, agents, credit_ledger, signature_cache, calls,
                   accepted, applied>>

Greatest(a, b) == IF a >= b THEN a ELSE b

SetCredits_Unclamped(credits, p_amount) == credits + p_amount

\* SET credits = GREATEST(0, credits + p_amount)
SetCredits(credits, p_amount) == Greatest(0, credits + p_amount)

Returning_Before(oldRow, newRow) == [id |-> oldRow.id, credits |-> oldRow.credits]

\* RETURNING id, credits INTO v_agent_id, v_new_balance
Returning(oldRow, newRow) == [id |-> newRow.id, credits |-> newRow.credits]

LedgerRow_Swapped(id, v_agent_id, p_type, p_amount, v_new_balance, p_reason, p_pr_url, clock) ==
    [id |-> id, agent_id |-> v_agent_id, event_type |-> p_type, amount |-> v_new_balance,
     balance_after |-> p_amount, reason |-> p_reason, pr_url |-> p_pr_url,
     created_at |-> clock]

\* INSERT INTO credit_ledger (agent_id, event_type, amount, balance_after, reason, pr_url)
\* with the defaults of id and created_at
LedgerRow(id, v_agent_id, p_type, p_amount, v_new_balance, p_reason, p_pr_url, clock) ==
    [id |-> id, agent_id |-> v_agent_id, event_type |-> p_type, amount |-> p_amount,
     balance_after |-> v_new_balance, reason |-> p_reason, pr_url |-> p_pr_url,
     created_at |-> clock]

TxnVisible_NoRollback(outcome, executed) == executed

\* the function body runs in one transaction: its statements take effect
\* together at commit, and none of them does when it ends any other way
TxnVisible(outcome, executed) ==
    IF outcome = "commit" THEN executed ELSE [update |-> FALSE, insert |-> FALSE]

RecordCreditEventError_Bare(message) == <<"Failed to record credit event">>

\* throw new Error(`Failed to record credit event: ${error.message}`)
RecordCreditEventError(message) == <<"Failed to record credit event: ">> \o message

AppendRow_Latest(ledger, row) ==
    SelectSeq(ledger, LAMBDA r : r.agent_id # row.agent_id) \o <<row>>

\* a committed INSERT adds its row to the table
AppendRow(ledger, row) == Append(ledger, row)

\* supabase.rpc('record_credit_event_atomic', ...): the request opens its
\* transaction
recordCreditEvent ==
    /\ CanStart
    /\ \E did \in DIDs, event \in CreditEvents :
          calls' = calls \cup
                     {[IdleCall EXCEPT
                         !.op = "recordCreditEvent", !.pc = "update", !.did = did,
                         !.event = event, !.callNo = opCount + 1, !.txnStart = now,
                         !.overlapped = \E q \in calls : /\ q.op = "recordCreditEvent"
                                                         /\ q.did = did]}
    /\ opCount' = opCount + 1
    /\ UNCHANGED <<now, pure, guardians, agents, credit_ledger, signature_cache,
                   returned, accepted, applied>>

\* UPDATE agents SET credits = ... WHERE did = p_did RETURNING ...;
\* IF NOT FOUND THEN RAISE EXCEPTION
rpcUpdate(c) ==
    /\ c.op = "recordCreditEvent" /\ c.pc = "update"
    /\ IF c.did \notin DOMAIN agents
       THEN Done(c, [c EXCEPT !.result =
                        Thrown(RecordCreditEventError(<<"Agent not found: ", c.did>>))])
       ELSE /\ ~RowLocked(c.did)
            /\ LET oldRow == agents[c.did]
                   newRow == [oldRow EXCEPT !.credits = SetCredits(@, c.event.amount)]
               IN  IF ~credits_non_negative(newRow.credits)
                   THEN Done(c, [c EXCEPT !.result = Thrown(RecordCreditEventError(
                                   <<"violates check constraint credits_non_negative">>))])
                   ELSE /\ Step(c, [c EXCEPT !.pc = "insert",
                                             !.executed.update = TRUE,
                                             !.agent = Some(newRow),
                                             !.newBalance = Returning(oldRow, newRow).credits])
                        /\ UNCHANGED returned
    /\ UNCHANGED <<now, pure, guardians, agents, credit_ledger, signature_cache,
                   accepted, applied, opCount>>

\* INSERT INTO credit_ledger ... RETURNING * INTO v_result
rpcInsert(c) ==
    /\ c.op = "recordCreditEvent" /\ c.pc = "insert"
    /\ LET row == LedgerRow(<<"credit_ledger", c.callNo>>, Get(c.agent).id, c.event.type,
                            c.event.amount, c.newBalance, c.event.reason,
                            IF IsFalsyString(c.event.prUrl) THEN None ELSE c.event.prUrl,
                            c.txnStart)
       IN  Step(c, [c EXCEPT !.pc = "commit", !.executed.insert = TRUE, !.row = Some(row)])
    /\ UNCHANGED <<now, pure, guardians, agents, credit_ledger, signature_cache,
                   returned, accepted, applied, opCount>>

\* the transaction ends: RETURN v_result and commit, or the connection or the
\* process is lost and the transaction is rolled back
rpcEnd(c) ==
    /\ c.op = "recordCreditEvent" /\ c.pc \in {"insert", "commit"}
    /\ \E outcome \in {"commit", "abort"} :
          /\ outcome = "commit" => c.pc = "commit"
          /\ LET visible == TxnVisible(outcome, c.executed)
             IN  /\ agents' = IF visible.update
                              THEN [agents EXCEPT ![c.did] = Get(c.agent)]
                              ELSE agents
                 /\ applied' = IF visible.update
                               THEN [applied EXCEPT ![c.did] = @ + 1]
                               ELSE applied
                 /\ credit_ledger' = IF visible.insert
                                     THEN AppendRow(credit_ledger, Get(c.row))
                                     ELSE credit_ledger
                 /\ Done(c, [c EXCEPT
                       !.result = IF outcome = "commit"
                                  THEN Returned(rowToLedgerEntry(Get(c.row)))
                                  ELSE Thrown(RecordCreditEventError(<<"connection lost">>))])
    /\ UNCHANGED <<now, pure, guardians, signature_cache, accepted, opCount>>

\* the rows .eq('agent_id', id).order('created_at', {ascending: false})
\* .limit(limit) can return: equal created_at values come in any order
HistoryPages(agentId, limit) ==
    LET I == {i \in 1..Len(credit_ledger) : credit_ledger[i].agent_id = agentId}
        n == IF Cardinality(I) < limit THEN Cardinality(I) ELSE limit
    IN  { [k \in 1..n |-> credit_ledger[f[k]]] :
            f \in { g \in [1..n -> I] :
                      /\ \A j, k \in 1..n : j < k =>
                            /\ g[j] # g[k]
                            /\ credit_ledger[g[j]].created_at >= credit_ledger[g[k]].created_at
                      /\ \A i \in I : (\A k \in 1..n : g[k] # i) =>
                            \A k \in 1..n :
                               credit_ledger[g[k]].created_at >= credit_ledger[i].created_at } }

\* first query of getCreditHistory: the agent's id
getCreditHistory ==
    /\ \E did \in ManagedDIDs, limit \in HistoryLimits :
          IF did \notin DOMAIN agents
          THEN /\ CanCall
               /\ Finish("getCreditHistory", did, Thrown(<<"Agent not found: ", did>>))
               /\ UNCHANGED calls
          ELSE /\ CanStart
               /\ calls' = calls \cup
                             {[IdleCall EXCEPT !.op = "getCreditHistory", !.pc = "select",
                                               !.did = did, !.limit = limit,
                                               !.callNo = opCount + 1,
                                               !.agent = Some(agents[did])]}
               /\ opCount' = opCount + 1
               /\ UNCHANGED returned
    /\ UNCHANGED <<now, pure, guardians, agents, credit_ledger, signature_cache,
                   accepted, applied>>

\* second query of getCreditHistory: the ledger rows
historySelect(c) ==
    /\ c.op = "getCreditHistory" /\ c.pc = "select"
    /\ \E page \in HistoryPages(Get(c.agent).id, c.limit) :
          Done(c, [c EXCEPT !.result =
                      Returned([k \in 1..Len(page) |-> rowToLedgerEntry(page[k])])])
    /\ UNCHANGED <<now, pure, guardians, agents, credit_ledger, signature_cache,
                   accepted, applied, opCount>>

-----------------------------------------------------------------------------
(* registry/verify.ts and the signature cache *)

\* a storage request can fail for reasons of its own (timeout, connection)
StorageFaults == BOOLEAN

\* agent.publicKey.match(/.{1,2}/g) mapped through parseInt(byte, 16)
hexToBytes(text) ==
    IF text # << >> /\ Head(text) = "hex" THEN Tail(text) ELSE <<"junk">> \o text

Verdict(valid, agent, error) ==
    [ok |-> TRUE, valid |-> valid, error |-> error, value |-> agent]

CacheHas(signatureHash) == \E row \in signature_cache : row.signature_hash = signatureHash

\* the signature was accepted and its hash cached, and the cache holds the
\* hash no longer: only cleanup_signature_cache deletes rows
Swept(signature) ==
    /\ \E a \in accepted : a.signature = signature /\ ~a.faulted
    /\ ~CacheHas(bytesToHex(sha256(signature)))

IsActive_NotRevoked(agent) == agent.status # "revoked"

\* agent.status !== 'active', negated
IsActive(agent) == agent.status = "active"

\* verifyAgentSignature up to its first query: the agents row and its status
verifyAgentSignature ==
    /\ \E did \in DIDs, presented \in Presentations, fault \in StorageFaults :
          LET call == [IdleCall EXCEPT
                          !.op = "verifyAgentSignature", !.did = did,
                          !.callNo = opCount + 1,
                          !.signature = presented.signature,
                          !.message = presented.message,
                          !.timestamp = presented.timestamp,
                          !.afterAccept = \E a \in accepted : a.signature = presented.signature,
                          !.afterSweep = Swept(presented.signature),
                          !.faulted = fault]
              done(result) == /\ CanCall
                              /\ returned' = [call EXCEPT !.pc = "done", !.result = result]
                              /\ UNCHANGED calls
          IN  IF fault
              THEN done(Verdict(FALSE, None, <<"Database error: ", "timeout">>))
              ELSE IF did \notin DOMAIN agents
              THEN done(Verdict(FALSE, None, <<"Agent not found: ", did>>))
              ELSE LET agent == rowToAgent(agents[did]) IN
                   IF ~IsActive(agent)
                   THEN done(Verdict(FALSE, Some(agent), <<"Agent is ", agent.status>>))
                   ELSE /\ CanStart
                        /\ calls' = calls \cup
                              {[call EXCEPT
                                  !.pc = "selectCache",
                                  !.agent = Some(agent),
                                  !.signatureHash = bytesToHex(sha256(presented.signature))]}
                        /\ UNCHANGED returned
    /\ opCount' = opCount + 1
    /\ UNCHANGED <<now, pure, guardians, agents, credit_ledger, signature_cache,
                   accepted, applied>>

\* the lookup in signature_cache; only data is read, so a failed lookup
\* reads as "not cached"
verifySelectCache(c) ==
    /\ c.op = "verifyAgentSignature" /\ c.pc = "selectCache"
    /\ \E fault \in StorageFaults :
          /\ fault => CacheHas(c.signatureHash)
          /\ LET cached == ~fault /\ CacheHas(c.signatureHash)
             IN  IF cached
                 THEN Done(c, [c EXCEPT !.result = Verdict(FALSE, c.agent,
                                 <<"Signature already used (replay attack detected)">>)])
                 ELSE /\ Step(c, [c EXCEPT !.pc = "verify", !.faulted = @ \/ fault])
                      /\ UNCHANGED returned
    /\ UNCHANGED <<now, pure, guardians, agents, credit_ledger, signature_cache,
                   accepted, applied, opCount>>

\* the headers object verifyAgentSignature hands to verifyRequest
AgentHeaders(signature, timestamp) ==
    << <<"x-agent-signature", signature>>, <<"x-agent-timestamp", timestamp>> >>

\* the public key conversion and verifyRequest with the two headers
verifyCrypto(c) ==
    /\ c.op = "verifyAgentSignature" /\ c.pc = "verify"
    /\ LET agent == Get(c.agent)
       IN  IF agent.publicKey = << >>
           THEN Done(c, [c EXCEPT !.result =
                           Verdict(FALSE, c.agent, <<"Invalid public key format">>)])
           ELSE LET result == verifyRequest(
                                 AgentHeaders(c.signature, c.timestamp),
                                 hexToBytes(agent.publicKey), Some(c.message), None, now)
                IN  IF ~result.valid
                    THEN Done(c, [c EXCEPT !.result =
                                    Verdict(FALSE, c.agent,
                                            IF result.error # ""
                                            THEN <<result.error>>
                                            ELSE <<"Signature verification failed">>)])
                    ELSE /\ Step(c, [c EXCEPT !.pc = "insert"])
                         /\ UNCHANGED returned
    /\ UNCHANGED <<now, pure, guardians, agents, credit_ledger, signature_cache,
                   accepted, applied, opCount>>

\* INSERT INTO signature_cache: signature_hash is the primary key, a second
\* row with the same hash is refused
CacheInsert(row) ==
    IF CacheHas(row.signature_hash) THEN signature_cache ELSE signature_cache \cup {row}

\* the insert into signature_cache, whose outcome is not looked at, and the
\* return of valid: true
verifyInsert(c) ==
    /\ c.op = "verifyAgentSignature" /\ c.pc = "insert"
    /\ \E fault \in StorageFaults :
          LET row == [signature_hash |-> c.signatureHash, agent_did |-> c.did,
                      timestamp |-> ParseInt(c.timestamp).val, created_at |-> now]
              faulted == c.faulted \/ fault
          IN  /\ signature_cache' = IF fault THEN signature_cache ELSE CacheInsert(row)
              /\ Done(c, [c EXCEPT
                            !.faulted = faulted,
                            !.second = \E a \in accepted : /\ a.signature = c.signature
                                                           /\ ~a.faulted,
                            !.result = Verdict(TRUE, c.agent, << >>)])
              /\ accepted' = accepted \cup {[signature |-> c.signature, faulted |-> faulted]}
    /\ UNCHANGED <<now, pure, guardians, agents, credit_ledger, applied, opCount>>

\* DELETE FROM signature_cache WHERE created_at < NOW() - INTERVAL '1 hour'
Expired_Any(row, clock) == TRUE

\* WHERE created_at < NOW() - INTERVAL '1 hour'
Expired(row, clock) == row.created_at < clock - CacheHorizonMs

cleanup_signature_cache ==
    /\ CanCall
    /\ LET old == {row \in signature_cache : Expired(row, now)}
       IN  /\ signature_cache' = signature_cache \ old
           /\ Finish("cleanup_signature_cache", "", Returned(Cardinality(old)))
    /\ UNCHANGED <<now, pure, guardians, agents, credit_ledger, calls, accepted, applied>>

-----------------------------------------------------------------------------
(* Specifications *)

\* the steps of the calls in flight
Continue ==
    \E c \in calls :
        \/ rpcUpdate(c)
        \/ rpcInsert(c)
        \/ rpcEnd(c)
        \/ historySelect(c)
        \/ verifySelectCache(c)
        \/ verifyCrypto(c)
        \/ verifyInsert(c)
        \/ registerInsert(c)
        \/ revokeUpdate(c)

Register == registerGuardian \/ registerAgent

\* the whole registry API, every call interleaved with every other
Next ==
    \/ Tick
    \/ Register
    \/ opCount < MaxOpsAll /\ updateAgent
    \/ opCount < MaxOpsAll /\ suspendAgent
    \/ opCount < MaxOpsAll /\ revokeAgent
    \/ opCount < MaxOpsAll /\ getCredits
    \/ opCount < MaxOpsAll /\ recordCreditEvent
    \/ opCount < MaxOpsAll /\ getCreditHistory
    \/ opCount < MaxOpsAll /\ verifyAgentSignature
    \/ opCount < MaxOpsAll /\ cleanup_signature_cache
    \/ Continue

Spec == Init /\ [][Next]_vars

\* the credit ledger and the agent rows it is kept on
NextLedger ==
    \/ Tick
    \/ Register
    \/ updateAgent
    \/ suspendAgent
    \/ revokeAgent
    \/ getCredits
    \/ recordCreditEvent
    \/ getCreditHistory
    \/ \E c \in calls : rpcUpdate(c) \/ rpcInsert(c) \/ rpcEnd(c) \/ historySelect(c)
    \/ \E c \in calls : registerInsert(c) \/ revokeUpdate(c)

SpecLedger == Init /\ [][NextLedger]_vars

\* signature verification against the replay cache
NextReplay ==
    \/ Tick
    \/ Register
    \/ suspendAgent
    \/ verifyAgentSignature
    \/ cleanup_signature_cache
    \/ \E c \in calls : verifySelectCache(c) \/ verifyCrypto(c) \/ verifyInsert(c)
    \/ \E c \in calls : registerInsert(c)

SpecReplay == Init /\ [][NextReplay]_vars

NextCrypto == PSign \/ PClock \/ PVerify

SpecCrypto == InitCrypto /\ [][NextCrypto]_vars

\* the same run, the headers edited on their way to the verifier
SpecTamper == InitTamper /\ [][NextCrypto]_vars

-----------------------------------------------------------------------------
(* did/resolve.ts and did/utils.ts.  A DID and a URL are strings of tokens:  *)
(* ":" and "/" are tokens of their own, every other token is a chunk of      *)
(* characters.  One run of the resolver is held in the variable pure: the    *)
(* document host, the call in progress, and the log of the fetches made.     *)

MaxResolves == 2
MaxPublishes == 2

\* the chunks DIDs are made of here, by character class: those made of
\* [a-z0-9] only, and those made of [a-zA-Z0-9._%-] only ("exa mple.com" is
\* in neither)
LowerAlnumChunks ==
    {"did", "web", "key", "agents", "claude", "localhost", "3000", "path", "to", "agent",
     "resource", "team", "a"}

IdentifierChunks ==
    LowerAlnumChunks \cup {"example.com", "api.example.com", "different.com", "z6Mk", "Web",
                           "invalid-did"}

\* /^did:[a-z0-9]+:[a-zA-Z0-9._:%-]+$/
isValidDID(did) ==
    /\ Len(did) >= 5
    /\ did[1] = "did" /\ did[2] = ":"
    /\ did[3] \in LowerAlnumChunks
    /\ did[4] = ":"
    /\ \A i \in 5..Len(did) : did[i] \in IdentifierChunks \cup {":"}

IsDidWeb_AnyMethod(did) == TRUE

\* did.startsWith('did:web:')
IsDidWeb(did) == Len(did) >= 4 /\ SubSeq(did, 1, 4) = <<"did", ":", "web", ":">>

\* String.prototype.split(separator): the parts between the separators
RECURSIVE Split(_, _, _)
Split(s, separator, part) ==
    IF s = << >> THEN <<part>>
    ELSE IF Head(s) = separator THEN <<part>> \o Split(Tail(s), separator, << >>)
    ELSE Split(Tail(s), separator, Append(part, Head(s)))

\* Array.prototype.join(separator)
RECURSIVE Join(_, _)
Join(parts, separator) ==
    IF parts = << >> THEN << >>
    ELSE IF Len(parts) = 1 THEN parts[1]
    ELSE parts[1] \o <<separator>> \o Join(Tail(parts), separator)

getWellKnownUrl_Root(did) ==
    [threw |-> Len(did) < 4 \/ SubSeq(did, 1, 4) # <<"did", ":", "web", ":">>,
     url |-> <<"https://">> \o Split(SubSeq(did, 5, Len(did)), ":", << >>)[1]
                \o <<"/.well-known/did.json">>]

\* getWellKnownUrl throws for a DID that does not start with did:web:
getWellKnownUrl(did) ==
    IF Len(did) < 4 \/ SubSeq(did, 1, 4) # <<"did", ":", "web", ":">>
    THEN [threw |-> TRUE, url |-> << >>]
    ELSE LET identifier == SubSeq(did, 5, Len(did))
             parts == Split(identifier, ":", << >>)
             domain == parts[1]
             pathParts == Tail(parts)
         IN  IF pathParts = << >>
             THEN [threw |-> FALSE,
                   url |-> <<"https://">> \o domain \o <<"/.well-known/did.json">>]
             ELSE [threw |-> FALSE,
                   url |-> <<"https://">> \o domain \o <<"/">> \o Join(pathParts, "/")
                              \o <<"/did.json">>]

\* did/generate.ts: the domain may carry a protocol, the path is optional
generateDID(domain, path) ==
    LET cleanDomain == IF domain # << >> /\ Head(domain) \in {"https://", "http://"}
                       THEN Tail(domain) ELSE domain
        did == <<"did", ":", "web", ":">> \o cleanDomain
    IN  IF IsFalsyString(path) THEN did
        ELSE LET pathSegments == SelectSeq(Split(Get(path), "/", << >>),
                                           LAMBDA segment : segment # << >>)
             IN  IF Len(pathSegments) > 0
                 THEN did \o <<":">> \o Join(pathSegments, ":")
                 ELSE did

\* the DIDs resolveDID is called with: two did:web DIDs (root and path), a
\* DID of another method, and strings that fail the pattern (no did: prefix,
\* empty identifier, upper-case method, a character outside the class)
DidInputs ==
    { <<"did", ":", "web", ":", "example.com">>,
      <<"did", ":", "web", ":", "example.com", ":", "agents", ":", "claude">>,
      <<"did", ":", "key", ":", "z6Mk">>,
      <<"invalid-did">>,
      <<"did", ":", "web", ":">>,
      <<"did", ":", "Web", ":", "example.com">>,
      <<"did", ":", "web", ":", "exa mple.com">> }

\* a DID document: its id and the revision the host publishes
Documents ==
    [id : { <<"did", ":", "web", ":", "example.com">>,
            <<"did", ":", "web", ":", "example.com", ":", "agents", ":", "claude">>,
            <<"did", ":", "web", ":", "different.com">> },
     rev : {1, 2}]

NoDocument == [id |-> << >>, rev |-> 0]

\* what a fetch can end in: a rejected promise (transport failure) or a
\* response with a status, a body (a JSON document, the JSON value null, or
\* text that is no JSON) and headers
Responses ==
    [kind : {"reject"}, status : {0}, body : {"none"}, doc : {NoDocument},
     contentType : {None}, lastModified : {None}]
    \cup
    [kind : {"http"}, status : {404, 500, 301}, body : {"text"}, doc : {NoDocument},
     contentType : {None}, lastModified : {None}]
    \cup
    [kind : {"http"}, status : {200, 201}, body : {"text", "null"}, doc : {NoDocument},
     contentType : {None}, lastModified : {None}]
    \cup
    [kind : {"http"}, status : {200}, body : {"doc"}, doc : Documents,
     contentType : {None, Some(<<"application/json">>)},
     lastModified : {None, Some(<<"Wed, 15 Jan 2025 12:00:00 GMT">>)}]

\* response.ok
ResponseOk(response) == response.status >= 200 /\ response.status <= 299

\* a DIDResolutionResult
ResolutionFailure(error) ==
    [didDocument |-> None, error |-> Some(error), contentType |-> None, updated |-> None]

ResolutionSuccess(didDocument, contentType, updated) ==
    [didDocument |-> Some(didDocument), error |-> None,
     contentType |-> contentType, updated |-> updated]

NoResolution == [didDocument |-> None, error |-> None, contentType |-> None, updated |-> None]

IdMatches_Always(didDocument, did) == TRUE

\* didDocument.id !== did
IdMatches(didDocument, did) == didDocument.id = did

\* what response.json() does with the body: a document, the value null, or a
\* SyntaxError
ParseJson(response) ==
    CASE response.body = "doc" -> [threw |-> FALSE, isNull |-> FALSE, doc |-> response.doc]
      [] response.body = "null" -> [threw |-> FALSE, isNull |-> TRUE, doc |-> NoDocument]
      [] OTHER -> [threw |-> TRUE, isNull |-> FALSE, doc |-> NoDocument]

\* resolveDID before the fetch: the checks that need no network
ResolveChecks(did) ==
    IF ~isValidDID(did) THEN ResolutionFailure("invalidDid")
    ELSE IF ~IsDidWeb(did) THEN ResolutionFailure("methodNotSupported")
    ELSE NoResolution

\* resolveDID after the fetch settled, inside try/catch
ResolveResponse(did, response) ==
    IF response.kind = "reject" THEN ResolutionFailure("internalError")
    ELSE IF ~ResponseOk(response)
    THEN ResolutionFailure(IF response.status = 404 THEN "notFound" ELSE "internalError")
    ELSE LET parsed == ParseJson(response)
         IN  IF parsed.threw \/ parsed.isNull THEN ResolutionFailure("internalError")
             ELSE IF ~IdMatches(parsed.doc, did) THEN ResolutionFailure("invalidDidDocument")
             ELSE ResolutionSuccess(parsed.doc, response.contentType, response.lastModified)

Fetched_Cached(served, delivered) ==
    IF delivered # << >> THEN delivered[1] ELSE served

\* globalThis.fetch(url): the response the host serves now
Fetched(served, delivered) == served

DidInit ==
    [stage : {"did"}, pc : {"idle"}, did : {<< >>}, url : {<< >>},
     served : Responses, publishes : {0},
     fetches : {<< >>}, delivered : {<< >>},
     resolves : {0}, fetchesAtStart : {0},
     result : {NoResolution}]

InitDid ==
    /\ now = SignTime
    /\ pure \in DidInit
    /\ InitRegistry

\* the host replaces what it serves
DPublish ==
    /\ pure.stage = "did"
    /\ pure.publishes < MaxPublishes
    /\ \E response \in Responses :
          /\ response # pure.served
          /\ pure' = [pure EXCEPT !.served = response, !.publishes = @ + 1]
    /\ UNCHANGED <<now, registryVars>>

\* resolveDID(did) up to the fetch
DResolve ==
    /\ pure.stage = "did" /\ pure.pc = "idle"
    /\ pure.resolves < MaxResolves
    /\ \E did \in DidInputs :
          LET checks == ResolveChecks(did)
              started == [pure EXCEPT !.did = did, !.resolves = @ + 1,
                                      !.fetchesAtStart = Len(pure.fetches)]
          IN  IF checks # NoResolution
              THEN pure' = [started EXCEPT !.pc = "returned", !.url = << >>,
                                           !.result = checks]
              ELSE IF getWellKnownUrl(did).threw
              THEN pure' = [started EXCEPT !.pc = "returned", !.url = << >>,
                                           !.result = ResolutionFailure("internalError")]
              ELSE pure' = [started EXCEPT !.pc = "fetching",
                                           !.url = getWellKnownUrl(did).url,
                                           !.fetches = Append(@, getWellKnownUrl(did).url),
                                           !.result = NoResolution]
    /\ UNCHANGED <<now, registryVars>>

\* the fetch settles and resolveDID returns
DRespond ==
    /\ pure.stage = "did" /\ pure.pc = "fetching"
    /\ pure' = [pure EXCEPT
                  !.pc = "returned",
                  !.delivered = <<pure.served>>,
                  !.result = ResolveResponse(pure.did, Fetched(pure.served, pure.delivered))]
    /\ UNCHANGED <<now, registryVars>>

\* the caller takes the result; the resolver keeps nothing of the call
DReturn ==
    /\ pure.stage = "did" /\ pure.pc = "returned"
    /\ pure' = [pure EXCEPT !.pc = "idle"]
    /\ UNCHANGED <<now, registryVars>>

\* generateDID and getWellKnownUrl: a DID is built from a domain and a path,
\* or taken as it is, and located
Domains ==
    { <<"example.com">>, <<"api.example.com">>, <<"https://", "example.com">>,
      <<"http://", "example.com">>, <<"localhost", ":", "3000">> }

Paths ==
    { None, Some(<< >>), Some(<<"agents">>),
      Some(<<"agents", "/", "claude">>), Some(<<"/", "agents", "/", "claude">>),
      Some(<<"agents", "/", "claude", "/">>), Some(<<"agents", "/", "/", "claude">>),
      Some(<<"path", "/", "to", "/", "agent", "/", "resource">>),
      Some(<<"/">>), Some(<<"team", ":", "a", "/", "claude">>) }

LocateInputs ==
    [stage : {"url"}, pc : {"input"}, domain : Domains, path : Paths,
     did : {<< >>}, located : {[threw |-> FALSE, url |-> << >>]}]
    \cup
    [stage : {"url"}, pc : {"given"}, domain : {<< >>}, path : {None},
     did : DidInputs \cup {<<"did", ":", "web", ":", "localhost", ":", "3000", ":", "agents">>,
                           << >>, <<"did", ":", "web">>},
     located : {[threw |-> FALSE, url |-> << >>]}]

InitLocate ==
    /\ now = SignTime
    /\ pure \in LocateInputs
    /\ InitRegistry

UGenerate ==
    /\ pure.stage = "url" /\ pure.pc = "input"
    /\ pure' = [pure EXCEPT !.pc = "generated", !.did = generateDID(pure.domain, pure.path)]
    /\ UNCHANGED <<now, registryVars>>

ULocate ==
    /\ pure.stage = "url" /\ pure.pc \in {"generated", "given"}
    /\ pure' = [pure EXCEPT !.pc = IF pure.pc = "given" THEN "located" ELSE "generatedLocated",
                            !.located = getWellKnownUrl(pure.did)]
    /\ UNCHANGED <<now, registryVars>>

NextLocate == UGenerate \/ ULocate

SpecLocate == InitLocate /\ [][NextLocate]_vars

NextDid == DPublish \/ DResolve \/ DRespond \/ DReturn

SpecDid == InitDid /\ [][NextDid]_vars

-----------------------------------------------------------------------------
(* did/utils.ts: multibase encoding of public keys.  A byte array is a       *)
(* sequence of numbers 0..255, a base58 string a sequence of characters of   *)
(* the alphabet.  A BigInt is held as its digits in the target base, least   *)
(* significant first, without leading zero digits (0n is the empty           *)
(* sequence).                                                                *)

BASE58_ALPHABET ==
    <<"1", "2", "3", "4", "5", "6", "7", "8", "9",
      "A", "B", "C", "D", "E", "F", "G", "H", "J", "K", "L", "M", "N", "P", "Q", "R", "S",
      "T", "U", "V", "W", "X", "Y", "Z",
      "a", "b", "c", "d", "e", "f", "g", "h", "i", "j", "k", "m", "n", "o", "p", "q", "r",
      "s", "t", "u", "v", "w", "x", "y", "z">>

\* BASE58_ALPHABET.indexOf(char), -1 when the character is not in it
IndexOf(char) ==
    IF \E i \in 1..Len(BASE58_ALPHABET) : BASE58_ALPHABET[i] = char
    THEN (CHOOSE i \in 1..Len(BASE58_ALPHABET) : BASE58_ALPHABET[i] = char) - 1
    ELSE -1

\* num * m + a on the digits of num in the given base
RECURSIVE MulAdd(_, _, _, _)
MulAdd(digits, m, a, base) ==
    IF digits = << >>
    THEN IF a = 0 THEN << >> ELSE <<a % base>> \o MulAdd(<< >>, m, a \div base, base)
    ELSE LET v == Head(digits) * m + a
         IN  <<v % base>> \o MulAdd(Tail(digits), m, v \div base, base)

\* for (const x of values) num = num * from + x, the result in base `to`
RECURSIVE Accumulate(_, _, _, _)
Accumulate(values, num, from, to) ==
    IF values = << >> THEN num
    ELSE Accumulate(Tail(values), MulAdd(num, from, Head(values), to), from, to)

\* most significant digit first
RECURSIVE Reverse(_)
Reverse(s) == IF s = << >> THEN << >> ELSE Append(Reverse(Tail(s)), Head(s))

\* number of leading elements of s equal to x
RECURSIVE LeadingCount(_, _)
LeadingCount(s, x) ==
    IF s # << >> /\ Head(s) = x THEN 1 + LeadingCount(Tail(s), x) ELSE 0

Repeat(x, n) == [i \in 1..n |-> x]

encodeBase58(bytes) ==
    IF bytes = << >> THEN << >>
    ELSE LET num == Accumulate(bytes, << >>, 256, 58)
             result == [i \in 1..Len(num) |-> BASE58_ALPHABET[Reverse(num)[i] + 1]]
         IN  Repeat(BASE58_ALPHABET[1], LeadingCount(bytes, 0)) \o result

\* decodeBase58 throws for a character outside the alphabet
decodeBase58(str) ==
    IF str = << >> THEN [threw |-> FALSE, error |-> "", bytes |-> << >>]
    ELSE IF \E i \in 1..Len(str) : IndexOf(str[i]) = -1
    THEN [threw |-> TRUE, error |-> "Invalid base58 character", bytes |-> << >>]
    ELSE LET leadingZeros == LeadingCount(str, BASE58_ALPHABET[1])
             digits == [i \in 1..Len(str) |-> IndexOf(str[i])]
             num == Accumulate(digits, << >>, 58, 256)
         IN  [threw |-> FALSE, error |-> "",
              bytes |-> Repeat(0, leadingZeros) \o Reverse(num)]

\* the Ed25519 multicodec prefix 0xed 0x01
MulticodecPrefix == <<237, 1>>

publicKeyToMultibase(publicKey) ==
    <<"z">> \o encodeBase58(MulticodecPrefix \o publicKey)

WithoutPrefix_One(decoded) == SubSeq(decoded, 2, Len(decoded))

\* decoded.slice(2)
WithoutPrefix(decoded) == SubSeq(decoded, 3, Len(decoded))

\* multibaseToPublicKey throws for a string without the z, for a character
\* outside the alphabet and for bytes that are no prefixed 32-byte key
multibaseToPublicKey(multibase) ==
    IF multibase = << >> \/ Head(multibase) # "z"
    THEN [threw |-> TRUE, error |-> "Invalid multibase format: must start with z",
          bytes |-> << >>]
    ELSE LET decoded == decodeBase58(Tail(multibase))
         IN  IF decoded.threw THEN decoded
             ELSE IF \/ Len(decoded.bytes) < 34
                     \/ decoded.bytes[1] # MulticodecPrefix[1]
                     \/ decoded.bytes[2] # MulticodecPrefix[2]
             THEN [threw |-> TRUE, error |-> "Invalid Ed25519 multicodec prefix",
                   bytes |-> << >>]
             ELSE [threw |-> FALSE, error |-> "", bytes |-> WithoutPrefix(decoded.bytes)]

\* 32-byte keys: a run of zero bytes of any length, then one byte value
\* repeated, then a last byte
KeyLength == 32

KeyFills == {1, 88, 255}

KeyTails == {0, 255}

Key(zeros, fill, last) ==
    [i \in 1..KeyLength |->
        IF i <= zeros THEN 0 ELSE IF i = KeyLength THEN last ELSE fill]

KeyInputs ==
    [stage : {"key"}, pc : {"input"},
     key : {Key(zeros, fill, last) : zeros \in 0..KeyLength, fill \in KeyFills, last \in KeyTails},
     multibase : {<< >>},
     decoded : {[threw |-> FALSE, error |-> "", bytes |-> << >>]}]

InitKeys ==
    /\ now = SignTime
    /\ pure \in KeyInputs
    /\ InitRegistry

\* strings handed to multibaseToPublicKey: encodings of 31, 32 and 33 bytes
\* behind the Ed25519 tag or another two bytes, as they are, without their
\* first character, with another first character, and with a character that
\* is no base58 character in them; the empty string and 'z123'
MultibaseTexts ==
    LET payloads == { [i \in 1..n |-> IF i <= zeros THEN 0 ELSE fill] :
                         n \in 31..33, zeros \in 0..2, fill \in {1, 255} }
        tags == { MulticodecPrefix, <<236, 1>>, <<237, 2>>, <<0, 0>> }
        encoded == { <<"z">> \o encodeBase58(tag \o payload) :
                        tag \in tags, payload \in payloads }
    IN  encoded
        \cup { Tail(text) : text \in encoded }
        \cup { <<"m">> \o Tail(text) : text \in encoded }
        \cup { Append(text, "0") : text \in encoded }
        \cup { << >>, <<"z">>, <<"z", "1", "2", "3">> }

InitMultibase ==
    /\ now = SignTime
    /\ pure \in [stage : {"key"}, pc : {"encoded"}, key : {<< >>},
                  multibase : MultibaseTexts,
                  decoded : {[threw |-> FALSE, error |-> "", bytes |-> << >>]}]
    /\ InitRegistry

KEncode ==
    /\ pure.stage = "key" /\ pure.pc = "input"
    /\ pure' = [pure EXCEPT !.pc = "encoded", !.multibase = publicKeyToMultibase(pure.key)]
    /\ UNCHANGED <<now, registryVars>>

KDecode ==
    /\ pure.stage = "key" /\ pure.pc = "encoded"
    /\ pure' = [pure EXCEPT !.pc = "decoded", !.decoded = multibaseToPublicKey(pure.multibase)]
    /\ UNCHANGED <<now, registryVars>>

NextKeys == KEncode \/ KDecode

SpecKeys == InitKeys /\ [][NextKeys]_vars

\* multibaseToPublicKey on strings of any origin
SpecMultibase == InitMultibase /\ [][KDecode]_vars

-----------------------------------------------------------------------------
(* Claims *)

IsVerify(call) == call.op = "verifyAgentSignature" /\ call.pc = "done"

IsCredit(call) == call.op = "recordCreditEvent" /\ call.pc = "done"

\* the ledger rows of the agent registered under did, in append order
RowsOf(did) == SelectSeq(credit_ledger, LAMBDA r : r.agent_id = agents[did].id)

Max0(x) == IF x > 0 THEN x ELSE 0

Range(seq) == {seq[i] : i \in 1..Len(seq)}

\* C1: of two verifyAgentSignature calls that overlap in time and present the
\* same, valid signature, at most one returns valid: true.  The call that
\* returned is the second of such a pair when the signature had not been
\* accepted when it started and had been when it returned; neither call met
\* a storage failure.
C1_AtMostOneAccepts ==
    ~(/\ IsVerify(returned)
      /\ returned.result.valid
      /\ ~returned.afterAccept
      /\ returned.second
      /\ ~returned.faulted)

\* C2: a verifyAgentSignature call that starts after some call has returned
\* valid: true for the same signature string returns valid: false.
C2_LaterCallRejected ==
    (IsVerify(returned) /\ returned.afterAccept) => ~returned.result.valid

\* C3: credit events of +1 on one agent never lose an update: every +1 row
\* records the balance of the row appended before it (or the starting
\* balance) plus one, the agent's credits are the balance of its last row,
\* and an agent with n rows, all of them +1, holds its starting balance + n.
C3_NoLostUpdate ==
    \A d \in DOMAIN agents :
        LET rows == RowsOf(d)
            n == Len(rows)
            before(k) == IF k = 1 THEN DefaultCredits ELSE rows[k - 1].balance_after
        IN  /\ \A k \in 1..n : rows[k].amount = 1 => rows[k].balance_after = before(k) + 1
            /\ n > 0 => agents[d].credits = rows[n].balance_after
            /\ (\A k \in 1..n : rows[k].amount = 1) =>
                  /\ agents[d].credits = DefaultCredits + n
                  /\ {rows[k].balance_after : k \in 1..n} =
                        {DefaultCredits + k : k \in 1..n}

C3_Witness ==
    /\ IsCredit(returned) /\ returned.result.ok /\ returned.overlapped
    /\ returned.event.amount = 1
    /\ returned.did \in DOMAIN agents
    /\ Len(RowsOf(returned.did)) >= 2
    /\ \A k \in 1..Len(RowsOf(returned.did)) : RowsOf(returned.did)[k].amount = 1

\* C4: in every state the number of ledger rows of an agent equals the
\* number of credit updates that took effect on its agents row, also after
\* a call was cut off between its UPDATE and its INSERT or before its commit.
C4_AllOrNothing ==
    \A d \in DIDs :
        applied[d] = Cardinality({i \in 1..Len(credit_ledger) :
                                    /\ d \in DOMAIN agents
                                    /\ credit_ledger[i].agent_id = agents[d].id})

C4_Witness ==
    /\ IsCredit(returned) /\ ~returned.result.ok
    /\ returned.executed.update /\ ~returned.executed.insert
    /\ returned.did \in DOMAIN agents
    /\ agents[returned.did].credits # Get(returned.agent).credits

\* C5: every agent's credits and every ledger row's balance_after are
\* integers >= 0.
C5_NonNegative ==
    /\ \A d \in DOMAIN agents : agents[d].credits \in Nat
    /\ \A i \in 1..Len(credit_ledger) : credit_ledger[i].balance_after \in Nat

C5_Witness ==
    \E d \in DOMAIN agents :
        /\ agents[d].credits = 0
        /\ \E i \in 1..Len(credit_ledger) :
              /\ credit_ledger[i].agent_id = agents[d].id
              /\ credit_ledger[i].amount < 0
              /\ credit_ledger[i].balance_after = 0

\* C6: a recordCreditEvent call on an existing agent with balance b and
\* amount a sets the credits to max(0, b + a) and appends exactly one row,
\* with amount a and balance_after max(0, b + a); no call is refused because
\* the debit would underflow.
C6_ClampedEvent ==
    /\ [](IsCredit(returned) =>
            returned.result.error #
               RecordCreditEventError(<<"violates check constraint credits_non_negative">>))
    /\ [][(/\ IsCredit(returned')
            /\ returned'.did \in DOMAIN agents
            /\ \/ credit_ledger' # credit_ledger
               \/ agents'[returned'.did] # agents[returned'.did])
          => LET d == returned'.did
                 a == returned'.event.amount
                 b == agents[d].credits
                 row == credit_ledger'[Len(credit_ledger')]
             IN  /\ returned'.result.ok
                 /\ agents'[d].credits = Max0(b + a)
                 /\ credit_ledger' = Append(credit_ledger, row)
                 /\ row.agent_id = agents[d].id
                 /\ row.amount = a
                 /\ row.balance_after = Max0(b + a)]_vars

C6_Witness ==
    /\ IsCredit(returned) /\ returned.result.ok
    /\ returned.event.amount = -150
    /\ returned.result.value = Some(rowToLedgerEntry(credit_ledger[Len(credit_ledger)]))
    /\ credit_ledger[Len(credit_ledger)].amount = -150
    /\ credit_ledger[Len(credit_ledger)].balance_after = 0
    /\ Len(RowsOf(returned.did)) = 2
    /\ RowsOf(returned.did)[1].balance_after = 101

\* C7: for every agent with at least one ledger row, the balance_after of
\* the row appended last equals the agent's credits.
C7_LastRowIsBalance ==
    \A d \in DOMAIN agents :
        Len(RowsOf(d)) > 0 => RowsOf(d)[Len(RowsOf(d))].balance_after = agents[d].credits

C7_Witness ==
    \E d \in DOMAIN agents :
        /\ Len(RowsOf(d)) > 0
        /\ agents[d].status # "active"
        /\ agents[d].name = "renamed"

\* C8: recordCreditEvent for a DID without an agents row fails with an
\* 'Agent not found' error and changes no agent and no ledger row.
C8_UnknownAgent ==
    [][(/\ returned'.callNo # returned.callNo
        /\ IsCredit(returned')
        /\ returned'.did \notin DOMAIN agents)
       => /\ ~returned'.result.ok
          /\ "Agent not found: " \in Range(returned'.result.error)
          /\ UNCHANGED <<agents, credit_ledger, applied>>]_vars

C8_Witness ==
    /\ IsCredit(returned)
    /\ returned.did \notin DOMAIN agents
    /\ ~returned.result.ok
    /\ DOMAIN agents # {}

\* C9: a ledger row, once written, stays as it is in every later state, and
\* no row is ever removed.
C9_AppendOnly ==
    [][/\ Len(credit_ledger') >= Len(credit_ledger)
       /\ \A i \in 1..Len(credit_ledger) : credit_ledger'[i] = credit_ledger[i]]_vars

C9_Witness ==
    /\ Len(credit_ledger) >= 1
    /\ returned.op = "cleanup_signature_cache"
    /\ returned.callNo > credit_ledger[1].id[2]

\* C10: a request signed by signRequest with timestamp ts and verified with
\* the matching key, method, URL and body at clock time now is valid exactly
\* when |now - ts| <= toleranceMs (default 300000), and is otherwise refused
\* with expiredTimestamp, for old and for future timestamps alike.
C10_ToleranceWindow ==
    LET ts == Coalesce(pure.request.timestamp, SignTime)
        tol == Coalesce(pure.toleranceMs, 300000)
        distance == IF now >= ts THEN now - ts ELSE ts - now
        matching == /\ pure.publicKey = getPublicKey(pure.privateKey)
                    /\ pure.body = pure.request.body
                    /\ \/ pure.sidecars
                       \/ pure.request.method = <<"POST">> /\ pure.request.url = <<"/">>
    IN  (pure.stage = "verified" /\ matching) =>
            /\ pure.result.valid <=> distance <= tol
            /\ ~pure.result.valid => pure.result.expiredTimestamp

C10_Witness ==
    /\ pure.stage = "verified"
    /\ pure.publicKey = getPublicKey(pure.privateKey)
    /\ pure.body = pure.request.body
    /\ pure.sidecars
    /\ pure.request.timestamp = None
    /\ pure.toleranceMs = None
    /\ now = SignTime - 300001
    /\ pure.result.expiredTimestamp

\* what the run signed and what it presented
SignedTimestamp == Coalesce(pure.request.timestamp, SignTime)

InsideWindow ==
    Abs(now - SignedTimestamp) <= Coalesce(pure.toleranceMs, DEFAULT_TOLERANCE_MS)

\* C11: a request signed by signRequest and checked inside the tolerance
\* window, with a signature header and a timestamp header that carries an
\* instant inside the window, is refused with 'Invalid signature' whenever
\* an input differs from what was signed: signature bytes altered, another
\* body (or body present against absent), another public key, a sidecar
\* naming another method or URL, or a timestamp header whose text is not the
\* signed one.
C11_TamperRejected ==
    LET differs ==
          \/ pure.signatureAs \in {"flipped", "garbage"}
          \/ pure.body # pure.request.body
          \/ pure.publicKey # getPublicKey(pure.privateKey)
          \/ /\ pure.sidecars
             /\ \/ ToUpperCase(EditMethod(pure.methodAs, pure.request.method))
                      # ToUpperCase(pure.request.method)
                \/ EditUrl(pure.urlAs, pure.request.url) # pure.request.url
          \/ pure.timestampAs \in {"suffixed", "spaced", "fraction", "other"}
    IN  (/\ pure.stage = "verified"
         /\ InsideWindow
         /\ pure.signatureAs \notin {"empty", "absent"}
         /\ pure.timestampAs \notin {"letters", "empty", "absent"}
         /\ ~pure.sidecars =>
               ToUpperCase(pure.request.method) = <<"POST">> /\ pure.request.url = <<"/">>
         /\ differs)
        => (~pure.result.valid /\ pure.result.error = "Invalid signature")

\* C12: verifyRequest gives a result for every combination of headers, key
\* bytes, body and tolerance, and every result with valid: false carries a
\* reason that is not the empty string.
C12_Total ==
    pure.stage = "verified" =>
        /\ pure.result.valid \in BOOLEAN
        /\ ~pure.result.valid => pure.result.error # ""
        /\ pure.result = verifyRequest(PresentedHeaders(pure), pure.publicKey,
                                       pure.body, pure.toleranceMs, now)

C12_Witness ==
    /\ pure.stage = "verified"
    /\ pure.publicKey = << >>
    /\ pure.signatureAs = "garbage"
    /\ pure.timestampAs = "same"
    /\ InsideWindow
    /\ ~pure.result.valid
    /\ pure.result.error = "Invalid signature"

\* C13: an X-Agent-Timestamp header whose text is not a decimal integer
\* (characters after the digits, a space before them, a fraction, no digit at
\* all) is refused with 'Invalid timestamp format'.
C13_NonDecimalRejected ==
    (/\ pure.stage = "verified"
     /\ pure.signatureAs \notin {"empty", "absent"}
     /\ pure.timestampAs \in {"suffixed", "spaced", "fraction", "letters"})
    => (~pure.result.valid /\ pure.result.error = "Invalid timestamp format")

\* C14: without the X-Agent-Method and X-Agent-URL headers a request that is
\* otherwise presented as signed, inside the window, is valid exactly when it
\* was signed over method POST and URL '/', and is refused with 'Invalid
\* signature' (never for a missing header) otherwise; the headers
\* verifyAgentSignature builds carry no sidecar and give the same result.
C14_DefaultSidecars ==
    LET signature == Get(getHeader(pure.headers, "X-Agent-Signature"))
        timestamp == Get(getHeader(pure.headers, "X-Agent-Timestamp"))
        agentHeaders == AgentHeaders(signature, timestamp)
    IN  (/\ pure.stage = "verified"
         /\ ~pure.sidecars
         /\ pure.signatureAs = "same" /\ pure.timestampAs = "same"
         /\ pure.publicKey = getPublicKey(pure.privateKey)
         /\ pure.body = pure.request.body
         /\ InsideWindow)
        => /\ pure.result.valid <=>
                 (ToUpperCase(pure.request.method) = <<"POST">> /\ pure.request.url = <<"/">>)
           /\ ~pure.result.valid => pure.result.error = "Invalid signature"
           /\ getHeader(agentHeaders, "X-Agent-Method") = None
           /\ getHeader(agentHeaders, "X-Agent-URL") = None
           /\ verifyRequest(agentHeaders, pure.publicKey, pure.body,
                            pure.toleranceMs, now) = pure.result

C14_Witness ==
    /\ pure.stage = "verified"
    /\ ~pure.sidecars
    /\ pure.publicKey = getPublicKey(pure.privateKey)
    /\ pure.body = pure.request.body
    /\ InsideWindow
    /\ pure.request.method = <<"POST">> /\ pure.request.url = <<"/">>
    /\ pure.result.valid

\* C15: a verifyAgentSignature call for an active agent that presents a
\* signature accepted before, and is refused for it, returns the result
\* (valid flag and error) of a call whose signature fails the cryptographic
\* check: valid: false with 'Invalid signature'.
C15_ReplayLooksInvalid ==
    (/\ IsVerify(returned)
     /\ returned.afterAccept
     /\ returned.agent # None
     /\ ~returned.result.valid
     /\ returned.result.error # <<"Timestamp outside tolerance window">>)
    => returned.result.error = <<"Invalid signature">>

\* a resolveDID call has returned; one that fetched was answered by the host
Resolved == pure.stage = "did" /\ pure.pc = "returned"

FetchedNow == Resolved /\ Len(pure.fetches) > pure.fetchesAtStart

\* C16: resolveDID on a well-formed did:web DID whose fetch succeeds with a
\* 2xx status and a body that is no JSON returns didDocument null with error
\* invalidDidDocument.
C16_NotJsonIsInvalidDocument ==
    (/\ FetchedNow
     /\ pure.delivered[1].kind = "http"
     /\ pure.delivered[1].status \in 200..299
     /\ pure.delivered[1].body = "text")
    => (pure.result.didDocument = None /\ pure.result.error = Some("invalidDidDocument"))

\* C17: resolveDID reports the first failing check in a fixed order: a DID
\* that fails the pattern gives invalidDid (and nothing is fetched), a
\* well-formed DID of another method gives methodNotSupported (and nothing is
\* fetched), then a failed fetch gives internalError, status 404 gives
\* notFound, any other status outside 200..299 gives internalError, and a
\* fetched document with another id gives invalidDidDocument; every call
\* ends in a result.
C17_FirstFailingCheck ==
    Resolved =>
        LET did == pure.did
            wellFormed == /\ Len(did) >= 5
                          /\ SubSeq(did, 1, 2) = <<"did", ":">>
                          /\ did[3] \in {"web", "key"} /\ did[4] = ":"
                          /\ \A k \in 5..Len(did) : did[k] # "exa mple.com"
            web == wellFormed /\ did[3] = "web"
            response == pure.delivered[1]
        IN  /\ pure.result.didDocument = None => pure.result.error # None
            /\ ~wellFormed => pure.result.error = Some("invalidDid") /\ ~FetchedNow
            /\ (wellFormed /\ ~web) =>
                   pure.result.error = Some("methodNotSupported") /\ ~FetchedNow
            /\ web =>
                 /\ FetchedNow
                 /\ response.kind = "reject" => pure.result.error = Some("internalError")
                 /\ (response.kind = "http" /\ response.status = 404) =>
                        pure.result.error = Some("notFound")
                 /\ (response.kind = "http" /\ response.status \notin 200..299
                       /\ response.status # 404) =>
                        pure.result.error = Some("internalError")
                 /\ (response.kind = "http" /\ response.status \in 200..299
                       /\ response.body = "doc" /\ response.doc.id # did) =>
                        pure.result.error = Some("invalidDidDocument")

C17_Witness ==
    /\ Resolved
    /\ pure.resolves = 2
    /\ pure.did = <<"did", ":", "key", ":", "z6Mk">>
    /\ pure.result.error = Some("methodNotSupported")
    /\ pure.delivered # << >> /\ pure.delivered[1].status = 404

\* C18: a result carries a document only if the fetched document's id is
\* the DID asked for, and then it is the fetched document; in every result
\* exactly one of the two holds: the document is there, or the error is set.
C18_DocumentOrError ==
    Resolved =>
        /\ pure.result.didDocument # None =>
              /\ FetchedNow
              /\ pure.delivered[1].body = "doc"
              /\ pure.delivered[1].doc.id = pure.did
              /\ pure.result.didDocument = Some(pure.delivered[1].doc)
        /\ (pure.result.didDocument # None) # (pure.result.error # None)

C18_Witness ==
    /\ Resolved
    /\ pure.did = <<"did", ":", "web", ":", "example.com", ":", "agents", ":", "claude">>
    /\ pure.result.didDocument # None
    /\ pure.result.error = None

\* C19: a resolveDID call makes exactly one fetch, of the well-known URL of
\* its DID, when the DID is a well-formed did:web DID, and none otherwise;
\* there are never more fetches than calls (no retry), and the result of a
\* call that fetched is the one the response served at that time gives,
\* whatever an earlier call for the same DID received.
C19_OneFetchNoCache ==
    (pure.stage = "did" /\ pure.pc \in {"fetching", "returned"}) =>
        LET did == pure.did
            web == /\ Len(did) >= 5 /\ SubSeq(did, 1, 4) = <<"did", ":", "web", ":">>
                   /\ \A k \in 5..Len(did) : did[k] # "exa mple.com"
            made == Len(pure.fetches) - pure.fetchesAtStart
            expected == IF Len(did) = 5
                        THEN <<"https://", did[5], "/.well-known/did.json">>
                        ELSE <<"https://", did[5], "/", did[7], "/", did[9], "/did.json">>
        IN  /\ made = (IF web THEN 1 ELSE 0)
            /\ web => pure.fetches[Len(pure.fetches)] = expected
            /\ Len(pure.fetches) <= pure.resolves
            /\ (web /\ pure.pc = "returned") =>
                   pure.result = ResolveResponse(did, pure.delivered[1])

C19_Witness ==
    /\ Resolved
    /\ Len(pure.fetches) = 2
    /\ pure.fetches[1] = pure.fetches[2]
    /\ pure.publishes > 0
    /\ pure.result.didDocument # None
    /\ Get(pure.result.didDocument).rev = 2

\* C20: for every 32-byte key k, also one of zero bytes only or with zero
\* bytes in front, multibaseToPublicKey(publicKeyToMultibase(k)) is k; the
\* multibase string starts with z, is made of base58 characters after it,
\* and is the same string whenever the key is encoded again.
C20_MultibaseRoundTrip ==
    (pure.stage = "key" /\ pure.pc # "input") =>
        /\ Len(pure.key) = 32
        /\ Head(pure.multibase) = "z"
        /\ \A i \in 2..Len(pure.multibase) :
               \E j \in 1..58 : BASE58_ALPHABET[j] = pure.multibase[i]
        /\ pure.multibase = publicKeyToMultibase(pure.key)
        /\ pure.pc = "decoded" =>
               (~pure.decoded.threw /\ pure.decoded.bytes = pure.key)

C20_Witness ==
    /\ pure.stage = "key" /\ pure.pc = "decoded"
    /\ \A i \in 1..32 : pure.key[i] = 0
    /\ pure.decoded.bytes = pure.key

\* C21: multibaseToPublicKey has one of three outcomes for every string: the
\* invalid-multibase error when the string does not start with z, the
\* invalid-codec error when it does and the decoded bytes are fewer than 34
\* or do not start with 0xed 0x01, and otherwise exactly 32 bytes.
C21_ThreeOutcomes ==
    (pure.stage = "key" /\ pure.pc = "decoded" /\ pure.key = << >>) =>
        LET text == pure.multibase
            out == pure.decoded
            prefixError == out.threw
                           /\ out.error = "Invalid multibase format: must start with z"
            codecError == out.threw /\ out.error = "Invalid Ed25519 multicodec prefix"
        IN  /\ (text = << >> \/ Head(text) # "z") <=> prefixError
            /\ prefixError \/ codecError \/ (~out.threw /\ Len(out.bytes) = 32)

\* the URL the claim describes for a domain and the segments of a path
DescribedUrl(domain, segments) ==
    IF segments = << >>
    THEN <<"https://">> \o domain \o <<"/.well-known/did.json">>
    ELSE <<"https://">> \o domain \o <<"/">> \o Join(segments, "/") \o <<"/did.json">>

PathSegments(path) ==
    IF path = None THEN << >>
    ELSE SelectSeq(Split(Get(path), "/", << >>), LAMBDA segment : segment # << >>)

LocatedAsDescribed ==
    /\ pure.pc = "located" =>
          IF Len(pure.did) < 4 \/ SubSeq(pure.did, 1, 4) # <<"did", ":", "web", ":">>
          THEN pure.located.threw
          ELSE /\ ~pure.located.threw
               /\ pure.located.url =
                     (IF Len(pure.did) <= 5
                      THEN <<"https://">> \o SubSeq(pure.did, 5, Len(pure.did))
                             \o <<"/.well-known/did.json">>
                      ELSE <<"https://">>
                             \o [k \in 1..(Len(pure.did) - 4) |->
                                    IF pure.did[k + 4] = ":" THEN "/" ELSE pure.did[k + 4]]
                             \o <<"/did.json">>)

\* C22: getWellKnownUrl fails for a DID that does not start with did:web:,
\* gives https://<domain>/.well-known/did.json for did:web:<domain> and
\* https://<domain>/<s1>/.../<sn>/did.json for did:web:<domain>:<s1>:...:<sn>;
\* and for every domain without a colon and every path,
\* getWellKnownUrl(generateDID(domain, path)) is the URL built from the
\* domain and the non-empty segments of the path.
C22_WellKnownUrl ==
    pure.stage = "url" =>
        /\ LocatedAsDescribed
        /\ (pure.pc = "generatedLocated"
              /\ \A k \in 1..Len(pure.domain) :
                    pure.domain[k] \notin {":", "https://", "http://"}) =>
               /\ ~pure.located.threw
               /\ pure.located.url = DescribedUrl(pure.domain, PathSegments(pure.path))

\* C22, amended: the same, for paths whose segments hold no colon.
C22_WellKnownUrlColonFree ==
    pure.stage = "url" =>
        /\ LocatedAsDescribed
        /\ (pure.pc = "generatedLocated"
              /\ (\A k \in 1..Len(pure.domain) :
                     pure.domain[k] \notin {":", "https://", "http://"})
              /\ (\A j \in 1..Len(Coalesce(pure.path, << >>)) :
                     Coalesce(pure.path, << >>)[j] # ":")) =>
               /\ ~pure.located.threw
               /\ pure.located.url = DescribedUrl(pure.domain, PathSegments(pure.path))

C22_Witness ==
    /\ pure.stage = "url" /\ pure.pc = "generatedLocated"
    /\ pure.domain = <<"api.example.com">>
    /\ pure.path = Some(<<"agents", "/", "/", "claude">>)
    /\ pure.located.url =
          <<"https://", "api.example.com", "/", "agents", "/", "claude", "/did.json">>

\* what rowToLedgerEntry is claimed to make of a ledger row
DescribedEntry(type, amount, reason, prUrl, agentId, balanceAfter, entry) ==
    /\ entry.type = Some(type)
    /\ entry.amount = Some(amount)
    /\ entry.reason = Some(reason)
    /\ entry.prUrl = Some(prUrl)
    /\ entry.agentId = Some(agentId)
    /\ entry.balanceAfter = Some(balanceAfter)

\* C23: the entry recordCreditEvent returns has the type, amount, reason and
\* prUrl of the submitted event, the id of the agent with the given DID, and
\* the balance that call stored; every entry getCreditHistory returns
\* describes, in the same way, the ledger row it was read from.
C23_EntryDescribesEvent ==
    /\ (IsCredit(returned) /\ returned.result.ok) =>
          DescribedEntry(returned.event.type, returned.event.amount, returned.event.reason,
                         returned.event.prUrl, Get(returned.agent).id, returned.newBalance,
                         Get(returned.result.value))
    /\ (returned.op = "getCreditHistory" /\ returned.pc = "done" /\ returned.result.ok) =>
          \A k \in 1..Len(Get(returned.result.value)) :
             \E i \in 1..Len(credit_ledger) :
                /\ Get(returned.result.value)[k].id = Some(credit_ledger[i].id)
                /\ DescribedEntry(credit_ledger[i].event_type, credit_ledger[i].amount,
                                  credit_ledger[i].reason, credit_ledger[i].pr_url,
                                  Get(returned.agent).id, credit_ledger[i].balance_after,
                                  Get(returned.result.value)[k])

\* C24: revocation is permanent.  An agent whose status is 'revoked' is
\* 'revoked' after every step of every registry operation.
C24_RevocationPermanent ==
    [][\A did \in DOMAIN agents :
          agents[did].status = "revoked" =>
             /\ did \in DOMAIN agents'
             /\ agents'[did].status = "revoked"]_vars

\* C25: an agent whose credits are 0 is not accepted.  A verifyAgentSignature
\* call that returns valid:true has read an agent row whose credits are
\* above 0.
C25_ZeroCreditsNotAccepted ==
    (IsVerify(returned) /\ returned.result.valid) => Get(returned.agent).credits > 0

\* the updateAgent call that has just run
UpdateAgentStep ==
    /\ returned'.op = "updateAgent"
    /\ opCount' = opCount + 1
    /\ returned'.callNo = opCount'

\* C26: updateAgent changes only those of name, description, capabilities and
\* metadata that the update supplies: the other columns of the agent's row, the
\* columns whose supplied value is undefined, the rows of every other agent and
\* the ledger are as they were before the call.
C26_UpdateAgentFrame ==
    [][UpdateAgentStep =>
          /\ credit_ledger' = credit_ledger
          /\ DOMAIN agents' = DOMAIN agents
          /\ \A did \in DOMAIN agents : did # returned'.did => agents'[did] = agents[did]
          /\ returned'.did \in DOMAIN agents =>
                LET old == agents[returned'.did]
                    new == agents'[returned'.did]
                IN  /\ \A column \in DOMAIN old \ {"name", "description", "capabilities",
                                                    "metadata"} :
                          new[column] = old[column]
                    /\ \E updates \in AgentUpdates :
                          /\ new.name = IF IsSome(updates.name)
                                        THEN Get(updates.name) ELSE old.name
                          /\ new.description = IF IsSome(updates.description)
                                               THEN updates.description ELSE old.description
                          /\ new.capabilities = IF IsSome(updates.capabilities)
                                                THEN updates.capabilities
                                                ELSE old.capabilities
                          /\ new.metadata = IF IsSome(updates.metadata)
                                            THEN Get(updates.metadata) ELSE old.metadata]_vars

C26_Witness ==
    /\ returned.op = "updateAgent" /\ returned.pc = "done" /\ returned.result.ok
    /\ agents[returned.did].name = "agent"
    /\ agents[returned.did].description = Some("reviews pull requests")
    /\ agents[returned.did].capabilities = Some(<<"review">>)
    /\ agents[returned.did].status = "suspended"

\* the balance a sequence of ledger rows leaves when their amounts are
\* applied one after the other
RECURSIVE ApplyEvents(_, _)
ApplyEvents(credits, rows) ==
    IF rows = << >> THEN credits
    ELSE ApplyEvents(Max0(credits + Head(rows).amount), Tail(rows))

\* a credit event on the agent has taken effect in this step
CreditsTouched(did) ==
    \/ agents'[did].credits # agents[did].credits
    \/ SelectSeq(credit_ledger', LAMBDA r : r.agent_id = agents[did].id) # RowsOf(did)

\* C27: credit events on different agents do not interfere and do not wait
\* on each other.  Every agent's balance is what its own ledger rows yield
\* from the starting balance, whatever was recorded on other agents and in
\* whichever order; an event whose agent's row no other event holds can
\* always take its UPDATE step, also while an event on another agent is
\* between its UPDATE and its commit; and a step changes the credits or the
\* ledger rows of one agent only, the agent of the event that commits in it.
C27_AgentsIndependent ==
    /\ [](/\ \A did \in DOMAIN agents :
                agents[did].credits = ApplyEvents(DefaultCredits, RowsOf(did))
          /\ \A c \in calls :
                (/\ c.op = "recordCreditEvent" /\ c.pc = "update"
                 /\ c.did \in DOMAIN agents
                 /\ ~\E q \in calls : /\ q.op = "recordCreditEvent"
                                      /\ q.did = c.did
                                      /\ q.executed.update) =>
                   ENABLED rpcUpdate(c))
    /\ [][\A did \in DOMAIN agents :
             CreditsTouched(did) =>
                /\ IsCredit(returned') /\ returned'.did = did
                /\ returned'.callNo \in {c.callNo : c \in calls}]_vars

\* an event on one agent commits while an event on another agent, started
\* earlier, holds its own agent's row
C27_Witness ==
    /\ IsCredit(returned) /\ returned.result.ok
    /\ \E q \in calls : /\ q.op = "recordCreditEvent"
                        /\ q.did # returned.did
                        /\ q.executed.update
                        /\ q.callNo < returned.callNo
    /\ agents[returned.did].credits = 0

\* the cleanup_signature_cache call that has just run
SweepStep ==
    /\ returned'.op = "cleanup_signature_cache"
    /\ opCount' = opCount + 1
    /\ returned'.callNo = opCount'

\* C28: the sweep never reopens a replay.  A verifyAgentSignature call that
\* starts after the cache entry of its signature was swept does not return
\* valid:true; and a sweep deletes exactly the entries created more than one
\* hour before it, every younger entry staying as it was.
C28_SweepKeepsReplayClosed ==
    /\ []((IsVerify(returned) /\ returned.afterSweep) => ~returned.result.valid)
    /\ [][SweepStep =>
             signature_cache' =
                {row \in signature_cache : row.created_at >= now - 60 * 60 * 1000}]_vars

\* the signature was accepted, its entry was swept, and the signature was
\* presented again
C28_Witness ==
    /\ IsVerify(returned) /\ returned.afterSweep
    /\ returned.result.error = <<"Timestamp outside tolerance window">>

\* a verifyAgentSignature call returns in this step
VerifyReturns ==
    /\ IsVerify(returned')
    /\ \/ opCount' = opCount + 1 /\ returned'.callNo = opCount'
       \/ \E c \in calls : /\ c.callNo = returned'.callNo
                           /\ \A d \in calls' : d.callNo # c.callNo

\* C29: the signature cache holds the hashes of the accepted signatures.  A
\* verifyAgentSignature call that returns valid:true leaves a cache row with
\* the hash of its signature, a call that returns valid:false leaves the
\* cache as it was, and no two rows have the same hash.
C29_CacheHoldsAccepted ==
    /\ [](\A r1, r2 \in signature_cache :
             r1.signature_hash = r2.signature_hash => r1 = r2)
    /\ [][VerifyReturns =>
             IF returned'.result.valid
             THEN \E row \in signature_cache' :
                     row.signature_hash = bytesToHex(sha256(returned'.signature))
             ELSE signature_cache' = signature_cache]_vars

\* the verifyAgentSignature calls that start in this step
VerifyStarts ==
    IF opCount' = opCount + 1
    THEN {c \in calls' \cup {returned'} :
            c.op = "verifyAgentSignature" /\ c.callNo = opCount'}
    ELSE {}

\* C30: an agent that is not active is never accepted.  A verifyAgentSignature
\* call that starts while the status of its agent is 'suspended' or 'revoked'
\* returns valid:false with 'Agent is <status>' whatever it presents, and
\* writes nothing to the signature cache; a call for a DID that has no agents
\* row returns valid:false with 'Agent not found: <did>' when the lookup was
\* answered.  No operation makes a suspended or revoked agent active again, so
\* every call that starts after suspendAgent or revokeAgent is such a call.
C30_InactiveNeverAccepted ==
    [][/\ \A did \in DOMAIN agents :
             agents[did].status # "active" =>
                did \in DOMAIN agents' /\ agents'[did].status # "active"
       /\ \A c \in VerifyStarts :
          /\ (c.did \in DOMAIN agents /\ agents[c.did].status # "active" /\ ~c.faulted) =>
                /\ c = returned' /\ c.pc = "done"
                /\ ~c.result.valid
                /\ c.result.error = <<"Agent is ", agents[c.did].status>>
                /\ signature_cache' = signature_cache
                /\ calls' = calls
          /\ (c.did \notin DOMAIN agents /\ ~c.faulted) =>
                /\ c = returned' /\ c.pc = "done"
                /\ ~c.result.valid
                /\ c.result.error = <<"Agent not found: ", c.did>>
                /\ signature_cache' = signature_cache
                /\ calls' = calls]_vars

\* a signature made by the agent's own key is presented after revokeAgent
C30_Witness ==
    /\ IsVerify(returned)
    /\ returned.result.error = <<"Agent is ", "revoked">>
    /\ returned.signature = SignatureOf(<<"skA">>, <<"contribution">>, SignTime)
    /\ agents[returned.did].public_key = bytesToHex(getPublicKey(<<"skA">>))

=============================================================================
